---- MODULE Spec2Model ----
(***************************************************************************)
(* Model of igia/skeleton.py: the region loop of main(), the OutputHandle  *)
(* context manager with its ten output streams, the SIGALRM based region   *)
(* deadline (time_out_handler / TimeOutError) and the timeout log.         *)
(*                                                                         *)
(* main() is a sequential program; the only asynchrony is the alarm, which *)
(* may be delivered between any two steps while it is pending.  The model  *)
(* therefore keeps a program counter pc and one action per step.           *)
(***************************************************************************)
EXTENDS Integers, Sequences, FiniteSets, TLC

(* ---- bounds of the model ---------------------------------------------- *)
MaxRegions == 2
MaxClusters == 2

(* ---- values ------------------------------------------------------------ *)
None == <<>>
\* --time-out: absent (None) or an int (type=int accepts any int).  <<t>>
\* stands for the int t; <<h, l>> stands for the int h * 2^16 + l, which a
\* single integer of the model checker cannot hold
TimeOuts == {None, <<-1>>, <<0>>, <<1>>, <<32768, 0>>}

\* setup_logging(args.loglevel): "DEBUG" with -vv (the _logger.debug calls of
\* main emit to stdout); "None" without (as with -v they emit nothing)
LogLevels == {"None", "DEBUG"}

\* the command lines explored: every --time-out without -vv, and a deadline
\* that can expire also with -vv
Args ==
  [time_out : TimeOuts, loglevel : {"None"}]
  \cup [time_out : {None, <<1>>}, loglevel : LogLevels]

\* signal.alarm(seconds) converts its argument to a C int: a Python int
\* outside -2^31 .. 2^31 - 1 raises OverflowError
Overflows(t) == Len(t) = 2 /\ (t[1] >= 32768 \/ t[1] < -32768)

\* alarm((unsigned) seconds): 0 schedules nothing, any other C int (a
\* negative one becomes 2^32 + seconds) schedules an alarm
Schedules(t) == t[1] # 0

\* f_out.element_handles(): the four element streams, in argument order
element_handles == <<"intron", "internal_exon", "tss_exon", "tes_exon">>
\* f_out.isoform_handles(): the six isoform streams, in argument order
isoform_handles == <<"isoF", "isoA", "isoR", "isoM", "isoC", "isoP">>
\* the order in which __enter__ opens and close() closes the streams
StreamOrder == element_handles \o isoform_handles
Streams == {StreamOrder[i] : i \in 1..Len(StreamOrder)}

\* the i-th (chrom, start, end) yielded by linkage.iterlinkage()
Region(i) == <<IF i % 2 = 1 THEN "chr1" ELSE "chr2", 100 * i, 100 * i + 50>>

\* a gene cluster as main() sees it: the element streams and the isoform
\* streams its records go to
ClusterShapes ==
  { [elem |-> {}, iso |-> {}],
    [elem |-> {"intron", "tes_exon"}, iso |-> {"isoF"}] }

\* the possible results of identify_element for one region
ClusterLists ==
  UNION { [1..n -> ClusterShapes] : n \in 0..MaxClusters }

\* gene_cluster.has_element()
has_element(c) == c.elem # {}

\* the streams, in handle order, that a write call writes a record to
WritesOf(handles, chosen) == SelectSeq(handles, LAMBDA s : s \in chosen)

\* decimal digits of n, as str.format renders an int
RECURSIVE Digits(_)
Digits(n) == IF n < 10 THEN <<n>> ELSE Digits(n \div 10) \o <<n % 10>>

\* "c_{0}".format(cluster_indx)
ClusterName(n) == <<"c", "_">> \o Digits(n)

\* "TimeOut ({0}s): {1}\t{2}\t{3}\n".format(args.time_out, chrom, start, end)
LogLine(t, r) == <<"TimeOut", t, r[1], r[2], r[3]>>

\* content left in the output directory by an earlier run
StaleRecord == [name |-> <<"stale">>, owner |-> <<0, 0>>]
\* a line left in igia_debug_timeout.log by an earlier run
StaleLine == LogLine(9, <<"chrX", 1, 2>>)

\* what out_dir can be when main starts: absent, or a directory holding
\* some of the ten files (none, two, all) and possibly a timeout log
OutDirs ==
  {[exists |-> FALSE, stale |-> {}, log |-> <<>>]}
  \cup [exists : {TRUE},
        stale : {{}, {"intron", "isoF"}, Streams},
        log : {<<>>, <<StaleLine>>}]

VARIABLES
  pc,                \* position of control
  time_out,          \* args.time_out
  loglevel,          \* args.loglevel
  nRegions,          \* number of regions linkage.iterlinkage() yields
  dirExists,         \* os.path.exists(out_dir)
  handle,            \* per stream: "unset", "open" or "closed" (attribute of f_out)
  files,             \* per stream: the records written to it (in the file, or
                     \* still in the buffer of the open file object)
  flushed,           \* per stream: how many of its first records are known to
                     \* be in the file itself (the rest may still be buffered)
  ci,                \* number of close calls close() has made
  ret,               \* who called close(): "exit" (__exit__), "caller" (after a
                     \* failed __enter__) or "again" (after __exit__ closed)
  cur,               \* index of the region being processed (0 before the first)
  alarm,             \* 0: no alarm pending; i: the alarm armed in region i is pending
  gene_cluster_list, \* result of identify_element for the current region
  pos,               \* number of clusters of the list already iterated
  cluster_indx,      \* the run-global cluster counter
  cluster_name,      \* name of the cluster being written
  todo,              \* streams the current write call still has to write to
  timeout_log,       \* lines of igia_debug_timeout.log
  log0,              \* history: the lines of that log when main started
  exc,               \* exception in flight or that left main ("None" if none)
  attempted,         \* history: regions for which the try block was entered
  assigned,          \* history: cluster ids handed out, with the owning cluster
  timedout,          \* history: regions whose try block ended in TimeOutError
  fatal,             \* history: region in which a non-timeout error was raised (0: none)
  closefail,         \* history: the streams whose close() raised
  run,               \* 1: first run of main; 2: a second run into the same directory
  prev,              \* per stream: the records in the file when the first run ended
  results            \* what identify_element returned for each region in the
                     \* first run (a deterministic collaborator returns it again)

vars == <<pc, time_out, loglevel, nRegions, dirExists, handle, files, flushed, ci, ret, cur, alarm,
          gene_cluster_list, pos, cluster_indx, cluster_name, todo,
          timeout_log, log0, exc, attempted, assigned, timedout, fatal,
          closefail, run, prev, results>>

\* variables of the region loop
loopVars == <<cur, gene_cluster_list, pos, cluster_indx, cluster_name, todo>>
histVars == <<attempted, assigned, timedout, fatal, closefail>>
\* variables that no step of a run changes
cfgVars == <<time_out, loglevel, nRegions, log0, run, prev, results>>

Init ==
  /\ pc = "enter"
  /\ \E a \in Args :
       /\ time_out = a.time_out
       /\ loglevel = a.loglevel
  /\ nRegions \in 0..MaxRegions
  /\ \E d \in OutDirs :
       /\ dirExists = d.exists
       /\ files = [s \in Streams |-> IF s \in d.stale THEN <<StaleRecord>> ELSE <<>>]
       /\ flushed = [s \in Streams |-> IF s \in d.stale THEN 1 ELSE 0]
       /\ timeout_log = d.log
       /\ log0 = d.log
  /\ handle = [s \in Streams |-> "unset"]
  /\ ci = 0
  /\ ret = "exit"
  /\ cur = 0
  /\ alarm = 0
  /\ gene_cluster_list = <<>>
  /\ pos = 0
  /\ cluster_indx = 0
  /\ cluster_name = <<>>
  /\ todo = <<>>
  /\ exc = "None"
  /\ attempted = <<>>
  /\ assigned = <<>>
  /\ timedout = <<>>
  /\ fatal = 0
  /\ closefail = {}
  /\ run = 1
  /\ prev = [s \in Streams |-> <<>>]
  /\ results = <<>>

(* ---- OutputHandle.__enter__ ------------------------------------------- *)
\* the streams __enter__ has not opened yet, in order
Unopened == SelectSeq(StreamOrder, LAMBDA s : handle[s] = "unset")

\* if not os.path.exists(outdir): os.makedirs(outdir)
Makedirs ==
  /\ pc = "enter"
  /\ dirExists' = TRUE
  /\ pc' = "open"
  /\ UNCHANGED <<cfgVars, handle, files, flushed, ci, ret, alarm, loopVars, timeout_log,
                 exc, histVars>>

\* os.makedirs raises
MakedirsFail ==
  /\ pc = "enter"
  /\ ~dirExists
  /\ exc' = "OSError"
  /\ pc' = "raised"
  /\ UNCHANGED <<cfgVars, dirExists, handle, files, flushed, ci, ret, alarm, loopVars,
                 timeout_log, histVars>>

\* mutant: the streams are opened with "a", keeping the prior content
OpenStream_Appends ==
  /\ pc = "open"
  /\ Unopened # <<>>
  /\ handle' = [handle EXCEPT ![Head(Unopened)] = "open"]
  /\ pc' = IF Len(Unopened) = 1 THEN "iter" ELSE "open"
  /\ UNCHANGED <<cfgVars, dirExists, files, flushed, ci, ret, alarm, loopVars,
                 timeout_log, exc, histVars>>

\* self.f_x = open(..., "w"): creates or truncates the file
OpenStream ==
  /\ pc = "open"
  /\ Unopened # <<>>
  /\ LET s == Head(Unopened) IN
       /\ handle' = [handle EXCEPT ![s] = "open"]
       /\ files' = [files EXCEPT ![s] = <<>>]
       /\ flushed' = [flushed EXCEPT ![s] = 0]
  /\ pc' = IF Len(Unopened) = 1 THEN "iter" ELSE "open"
  /\ UNCHANGED <<cfgVars, dirExists, ci, ret, alarm, loopVars, timeout_log, exc,
                 histVars>>

\* mutant: a failed open is swallowed and main goes on to the region loop
OpenStreamFail_Ignored ==
  /\ pc = "open"
  /\ Unopened # <<>>
  /\ pc' = "iter"
  /\ UNCHANGED <<cfgVars, dirExists, handle, files, flushed, ci, ret, alarm, loopVars,
                 timeout_log, exc, histVars>>

\* open(...) raises: __enter__ propagates, __exit__ is not called
OpenStreamFail ==
  /\ pc = "open"
  /\ Unopened # <<>>
  /\ exc' = "OSError"
  /\ pc' = "raised"
  /\ UNCHANGED <<cfgVars, dirExists, handle, files, flushed, ci, ret, alarm, loopVars,
                 timeout_log, histVars>>

(* ---- main(): the region loop ------------------------------------------- *)
\* the steps of the try block during which SIGALRM raises inside the try
TryBody ==
  {"identify", "loop", "name", "write_element", "transcript", "write_iso", "disarm"}

\* the cluster the loop over gene_cluster_list is at
Current == gene_cluster_list[pos + 1]

\* mutant: the record carries a region-local cluster number
Rec_RegionLocalName == [name |-> ClusterName(pos + 1), owner |-> <<cur, pos + 1>>]

\* the record a write call writes for the current cluster
Rec == [name |-> cluster_name, owner |-> <<cur, pos + 1>>]

\* an exception that no except clause of main matches: the with statement
\* calls __exit__, which calls close()
Propagate(e) ==
  /\ exc' = e
  /\ pc' = "close"
  /\ ci' = 0
  /\ ret' = "exit"
  /\ fatal' = cur
  /\ UNCHANGED <<attempted, assigned, timedout, closefail>>

\* mutant: the cluster counter is kept per region (reset at each region)
NextRegion_ResetsCounter ==
  /\ pc = "iter"
  /\ cur < nRegions
  /\ cur' = cur + 1
  /\ attempted' = Append(attempted, cur + 1)
  /\ cluster_indx' = 0
  /\ pc' = "try"
  /\ UNCHANGED <<cfgVars, dirExists, handle, files, flushed, ci, ret, alarm,
                 gene_cluster_list, pos, cluster_name, todo,
                 timeout_log, exc, assigned, timedout, fatal, closefail>>

\* for chrom, start, end in linkage.iterlinkage(): the next region
NextRegion ==
  /\ pc = "iter"
  /\ cur < nRegions
  /\ cur' = cur + 1
  /\ attempted' = Append(attempted, cur + 1)
  /\ pc' = "try"
  /\ UNCHANGED <<cfgVars, dirExists, handle, files, flushed, ci, ret, alarm,
                 gene_cluster_list, pos, cluster_indx, cluster_name, todo,
                 timeout_log, exc, assigned, timedout, fatal, closefail>>

\* the iterator is exhausted: the with block ends, __exit__ calls close()
EndOfRegions ==
  /\ pc = "iter"
  /\ cur = nRegions
  /\ pc' = "close"
  /\ ci' = 0
  /\ ret' = "exit"
  /\ UNCHANGED <<cfgVars, dirExists, handle, files, flushed, alarm, loopVars, timeout_log,
                 exc, histVars>>

\* if args.time_out is not None: signal.signal(...); signal.alarm(args.time_out)
\* (alarm(0) cancels any pending alarm and schedules none)
Arm ==
  /\ pc = "try"
  /\ time_out # None => ~Overflows(time_out)
  /\ alarm' = IF time_out = None THEN alarm
              ELSE IF Schedules(time_out) THEN cur ELSE 0
  /\ pc' = "identify"
  /\ UNCHANGED <<cfgVars, dirExists, handle, files, flushed, ci, ret, loopVars,
                 timeout_log, exc, histVars>>

\* signal.alarm(args.time_out) raises OverflowError inside the try block:
\* no except clause matches, nothing is scheduled
ArmOverflow ==
  /\ pc = "try"
  /\ time_out # None
  /\ Overflows(time_out)
  /\ Propagate("OverflowError")
  /\ UNCHANGED <<cfgVars, dirExists, handle, files, flushed, alarm, loopVars, timeout_log>>

\* gene_cluster_list = identify_element(chrom, start, end, ...) returns l
IdentifyElementReturns(l) ==
  /\ pc = "identify"
  /\ gene_cluster_list' = l
  /\ pos' = 0
  /\ pc' = "loop"
  /\ UNCHANGED <<time_out, loglevel, nRegions, log0, run, prev, dirExists, handle, files, flushed,
                 ci, ret, cur, alarm, cluster_indx, cluster_name, todo,
                 timeout_log, exc, histVars>>

\* gene_cluster_list = identify_element(chrom, start, end, ...)
IdentifyElement ==
  /\ \E l \in ClusterLists : IdentifyElementReturns(l)
  /\ UNCHANGED results

\* the same call in a first run that will be repeated: the result is noted
IdentifyElementFirst ==
  /\ run = 1
  /\ \E l \in ClusterLists :
       /\ IdentifyElementReturns(l)
       /\ results' = Append(results, l)

\* the same call in the second run: identical inputs, deterministic
\* collaborator, so the result is the first run's for this region
IdentifyElementAgain ==
  /\ run = 2
  /\ IdentifyElementReturns(results[cur])
  /\ UNCHANGED results

\* identify_element raises an error other than TimeOutError
IdentifyElementRaise ==
  /\ pc = "identify"
  /\ Propagate("Error")
  /\ UNCHANGED <<cfgVars, dirExists, handle, files, flushed, alarm, loopVars, timeout_log>>

\* mutant: the counter is advanced before the has_element test
LoopSkip_Counts ==
  /\ pc = "loop"
  /\ pos < Len(gene_cluster_list)
  /\ ~has_element(Current)
  /\ pos' = pos + 1
  /\ cluster_indx' = cluster_indx + 1
  /\ UNCHANGED <<pc, cfgVars, dirExists, handle, files, flushed, ci, ret, cur, alarm,
                 gene_cluster_list, cluster_name, todo,
                 timeout_log, exc, histVars>>

\* if not gene_cluster.has_element(): continue
LoopSkip ==
  /\ pc = "loop"
  /\ pos < Len(gene_cluster_list)
  /\ ~has_element(Current)
  /\ pos' = pos + 1
  /\ UNCHANGED <<pc, cfgVars, dirExists, handle, files, flushed, ci, ret, cur, alarm,
                 gene_cluster_list, cluster_indx, cluster_name, todo,
                 timeout_log, exc, histVars>>

\* cluster_indx += 1: the counter hands out the next number to the cluster
LoopAssign ==
  /\ pc = "loop"
  /\ pos < Len(gene_cluster_list)
  /\ has_element(Current)
  /\ cluster_indx' = cluster_indx + 1
  /\ assigned' = Append(assigned, [name |-> ClusterName(cluster_indx + 1),
                                   owner |-> <<cur, pos + 1>>,
                                   cluster |-> Current])
  /\ pc' = "name"
  /\ UNCHANGED <<cfgVars, dirExists, handle, files, flushed, ci, ret, cur, alarm,
                 gene_cluster_list, pos, cluster_name, todo, timeout_log, exc,
                 attempted, timedout, fatal, closefail>>

\* cluster_name = "c_{0}".format(cluster_indx); then the call of
\* write_element2bed6 begins
FormatName ==
  /\ pc = "name"
  /\ cluster_name' = ClusterName(cluster_indx)
  /\ todo' = WritesOf(element_handles, Current.elem)
  /\ pc' = "write_element"
  /\ UNCHANGED <<cfgVars, dirExists, handle, files, flushed, ci, ret, cur, alarm,
                 gene_cluster_list, pos, cluster_indx, timeout_log, exc, histVars>>

\* the for loop over gene_cluster_list ends
LoopEnd ==
  /\ pc = "loop"
  /\ pos = Len(gene_cluster_list)
  /\ pc' = "disarm"
  /\ UNCHANGED <<cfgVars, dirExists, handle, files, flushed, ci, ret, alarm, loopVars,
                 timeout_log, exc, histVars>>

\* gene_cluster.write_element2bed6(*f_out.element_handles(), cluster_name):
\* one record written to the next element stream of the cluster. The write
\* goes to the buffer of the open file object; a write that SIGALRM
\* interrupts while the buffer is flushed is AlarmInWrite
WriteElement ==
  /\ pc = "write_element"
  /\ todo # <<>>
  /\ handle[Head(todo)] = "open"
  /\ files' = [files EXCEPT ![Head(todo)] = Append(@, Rec)]
  /\ UNCHANGED flushed
  /\ todo' = Tail(todo)
  /\ pc' = IF Len(todo) = 1 THEN "transcript" ELSE "write_element"
  /\ UNCHANGED <<cfgVars, dirExists, handle, ci, ret, cur, alarm,
                 gene_cluster_list, pos, cluster_indx, cluster_name,
                 timeout_log, exc, histVars>>

\* write_element2bed6 raises an error other than TimeOutError
WriteElementRaise ==
  /\ pc = "write_element"
  /\ Propagate("Error")
  /\ UNCHANGED <<cfgVars, dirExists, handle, files, flushed, alarm, loopVars, timeout_log>>

\* trans = identify_transcript(gene_cluster, ann); the call of write2bed12 begins
IdentifyTranscript ==
  /\ pc = "transcript"
  /\ todo' = WritesOf(isoform_handles, Current.iso)
  /\ pc' = "write_iso"
  /\ UNCHANGED <<cfgVars, dirExists, handle, files, flushed, ci, ret, cur, alarm,
                 gene_cluster_list, pos, cluster_indx, cluster_name,
                 timeout_log, exc, histVars>>

\* identify_transcript raises an error other than TimeOutError
IdentifyTranscriptRaise ==
  /\ pc = "transcript"
  /\ Propagate("Error")
  /\ UNCHANGED <<cfgVars, dirExists, handle, files, flushed, alarm, loopVars, timeout_log>>

\* trans.write2bed12(cluster_name, *f_out.isoform_handles()): one record
\* written to the next isoform stream of the transcript set (buffered as in
\* WriteElement; the interrupted write is AlarmInWrite)
Write2bed12 ==
  /\ pc = "write_iso"
  /\ todo # <<>>
  /\ handle[Head(todo)] = "open"
  /\ files' = [files EXCEPT ![Head(todo)] = Append(@, Rec)]
  /\ UNCHANGED flushed
  /\ todo' = Tail(todo)
  /\ UNCHANGED <<pc, cfgVars, dirExists, handle, ci, ret, cur, alarm,
                 gene_cluster_list, pos, cluster_indx, cluster_name,
                 timeout_log, exc, histVars>>

\* write2bed12 returns: the loop goes on to the next cluster
Write2bed12Return ==
  /\ pc = "write_iso"
  /\ todo = <<>>
  /\ pos' = pos + 1
  /\ pc' = "loop"
  /\ UNCHANGED <<cfgVars, dirExists, handle, files, flushed, ci, ret, cur, alarm,
                 gene_cluster_list, cluster_indx, cluster_name, todo,
                 timeout_log, exc, histVars>>

\* write2bed12 raises an error other than TimeOutError
Write2bed12Raise ==
  /\ pc = "write_iso"
  /\ Propagate("Error")
  /\ UNCHANGED <<cfgVars, dirExists, handle, files, flushed, alarm, loopVars, timeout_log>>

\* mutant: the alarm is not cancelled when the region completes
Disarm_NoCancel ==
  /\ pc = "disarm"
  /\ pc' = "iter"
  /\ UNCHANGED <<cfgVars, dirExists, handle, files, flushed, ci, ret, alarm, loopVars,
                 timeout_log, exc, histVars>>

\* if args.time_out is not None: signal.alarm(0)
Disarm ==
  /\ pc = "disarm"
  /\ alarm' = IF time_out = None THEN alarm ELSE 0
  /\ pc' = "iter"
  /\ UNCHANGED <<cfgVars, dirExists, handle, files, flushed, ci, ret, loopVars,
                 timeout_log, exc, histVars>>

\* SIGALRM is delivered while control is in the try block: time_out_handler
\* raises TimeOutError there, and except TimeOutError catches it. The streams
\* keep what was written (the alarm that lands inside a flushing write is
\* AlarmInWrite)
AlarmInTry ==
  /\ alarm # 0
  /\ pc \in TryBody
  /\ alarm' = 0
  /\ exc' = "TimeOutError"
  /\ timedout' = Append(timedout, cur)
  /\ pc' = "except"
  /\ UNCHANGED <<cfgVars, dirExists, handle, files, flushed, ci, ret, loopVars,
                 timeout_log, attempted, assigned, fatal, closefail>>

\* SIGALRM is delivered while a write of a record to a stream is flushing
\* the buffer: time_out_handler raises TimeOutError inside f.write, the
\* buffered records are dropped (a prefix that had reached the file stays,
\* the record being written is not added), and except TimeOutError catches
\* the error
AlarmInWrite ==
  /\ alarm # 0
  /\ pc \in {"write_element", "write_iso"}
  /\ todo # <<>>
  /\ handle[Head(todo)] = "open"
  /\ LET s == Head(todo) IN
       \E k \in flushed[s]..(Len(files[s]) - 1) :
         /\ files' = [files EXCEPT ![s] = SubSeq(@, 1, k)]
         /\ flushed' = [flushed EXCEPT ![s] = k]
  /\ alarm' = 0
  /\ exc' = "TimeOutError"
  /\ timedout' = Append(timedout, cur)
  /\ pc' = "except"
  /\ UNCHANGED <<cfgVars, dirExists, handle, ci, ret, loopVars,
                 timeout_log, attempted, assigned, fatal, closefail>>

\* control is in one of the _logger.debug calls of the try block: line 187
\* (before identify_element is called), 190 (after it returned), 199 (before
\* identify_transcript), 202 (after write2bed12 returned)
InDebugCall ==
  \/ pc = "identify"
  \/ pc = "loop" /\ pos = 0
  \/ pc = "transcript"
  \/ pc = "write_iso" /\ todo = <<>>

\* SIGALRM is delivered while a debug call is emitting: time_out_handler
\* raises TimeOutError inside logging's Handler.emit, whose except Exception
\* catches it (TimeOutError is a RuntimeError) and reports a logging error.
\* The alarm is spent and the region goes on without a deadline
AlarmInDebug ==
  /\ alarm # 0
  /\ loglevel = "DEBUG"
  /\ InDebugCall
  /\ alarm' = 0
  /\ UNCHANGED <<pc, cfgVars, dirExists, handle, files, flushed, ci, ret, loopVars,
                 timeout_log, exc, histVars>>

\* str.format of args.time_out
Fmt(t) == IF t = None THEN "None" ELSE IF Len(t) = 1 THEN t[1] ELSE t

\* mutant: the handler leaves the region loop instead of continuing
TimeOutExcept_Break ==
  /\ pc = "except"
  /\ timeout_log' = Append(timeout_log, LogLine(Fmt(time_out), Region(cur)))
  /\ exc' = "None"
  /\ pc' = "close"
  /\ ci' = 0
  /\ ret' = "exit"
  /\ UNCHANGED <<cfgVars, dirExists, handle, files, flushed, alarm, loopVars, histVars>>

\* mutant: the handler logs and then re-raises the TimeOutError
TimeOutExcept_Reraise ==
  /\ pc = "except"
  /\ timeout_log' = Append(timeout_log, LogLine(Fmt(time_out), Region(cur)))
  /\ pc' = "close"
  /\ ci' = 0
  /\ ret' = "exit"
  /\ UNCHANGED <<cfgVars, dirExists, handle, files, flushed, alarm, loopVars, exc,
                 histVars>>

\* except TimeOutError: print(...); append one line to igia_debug_timeout.log
TimeOutExcept ==
  /\ pc = "except"
  /\ timeout_log' = Append(timeout_log, LogLine(Fmt(time_out), Region(cur)))
  /\ exc' = "None"
  /\ pc' = "iter"
  /\ UNCHANGED <<cfgVars, dirExists, handle, files, flushed, ci, ret, alarm, loopVars,
                 histVars>>

\* print, open(..., "a") or the write to the log raises OSError inside the
\* handler: no except clause catches it, no line is appended
TimeOutExceptRaise ==
  /\ pc = "except"
  /\ Propagate("OSError")
  /\ UNCHANGED <<cfgVars, dirExists, handle, files, flushed, alarm, loopVars, timeout_log>>

(* ---- OutputHandle.close / __exit__ ------------------------------------- *)
\* where control goes when close() returns
AfterClose ==
  IF ret \in {"caller", "again"} THEN "caller_done"
  ELSE IF exc = "None" THEN "done" ELSE "raised"

\* mutant: closing a stream that is already closed raises
CloseStream_RaisesIfClosed ==
  /\ pc = "close"
  /\ ci < Len(StreamOrder)
  /\ handle[StreamOrder[ci + 1]] # "unset"
  /\ IF handle[StreamOrder[ci + 1]] = "closed"
       THEN /\ exc' = "ValueError"
            /\ pc' = IF ret = "exit" THEN "raised" ELSE "caller_raised"
            /\ UNCHANGED <<handle, ci>>
       ELSE /\ handle' = [handle EXCEPT ![StreamOrder[ci + 1]] = "closed"]
            /\ ci' = ci + 1
            /\ UNCHANGED <<pc, exc>>
  /\ UNCHANGED <<cfgVars, dirExists, files, flushed, ret, alarm, loopVars, timeout_log,
                 histVars>>

\* self.f_x.close() for the next stream returns: the buffer is flushed and
\* the stream holds all that was written (closing a closed file is a no-op).
\* The close whose flush fails is CloseStreamFail, the close that SIGALRM
\* interrupts is AlarmInStreamClose
CloseStream ==
  /\ pc = "close"
  /\ ci < Len(StreamOrder)
  /\ handle[StreamOrder[ci + 1]] # "unset"
  /\ handle' = [handle EXCEPT ![StreamOrder[ci + 1]] = "closed"]
  /\ ci' = ci + 1
  /\ UNCHANGED <<pc, cfgVars, dirExists, files, flushed, ret, alarm, loopVars,
                 timeout_log, exc, histVars>>

\* self.f_x.close() raises OSError: the flush of the stream's buffer failed.
\* The file object is closed all the same, the records that were still in
\* the buffer are lost (what reached the file before is a prefix of what was
\* written), and close() is left at once: the later streams are not closed
CloseStreamFail ==
  /\ pc = "close"
  /\ ci < Len(StreamOrder)
  /\ handle[StreamOrder[ci + 1]] = "open"
  /\ LET s == StreamOrder[ci + 1] IN
       /\ handle' = [handle EXCEPT ![s] = "closed"]
       /\ \E k \in flushed[s]..Len(files[s]) :
            files' = [files EXCEPT ![s] = SubSeq(@, 1, k)]
       /\ UNCHANGED flushed
       /\ closefail' = closefail \cup {s}
  /\ exc' = "OSError"
  /\ pc' = IF ret = "exit" THEN "raised" ELSE "caller_raised"
  /\ UNCHANGED <<cfgVars, dirExists, ci, ret, alarm, loopVars, timeout_log,
                 attempted, assigned, timedout, fatal>>

\* the tenth close is done: close() returns to __exit__ (which returns to the
\* with statement, and an error in flight goes on to leave main) or to the
\* caller
CloseReturn ==
  /\ pc = "close"
  /\ ci = Len(StreamOrder)
  /\ pc' = AfterClose
  /\ UNCHANGED <<cfgVars, dirExists, handle, files, flushed, ci, ret, alarm, loopVars,
                 timeout_log, exc, histVars>>

\* self.f_x does not exist (its open never ran): AttributeError
CloseUnset ==
  /\ pc = "close"
  /\ ci < Len(StreamOrder)
  /\ handle[StreamOrder[ci + 1]] = "unset"
  /\ exc' = "AttributeError"
  /\ pc' = IF ret = "caller" THEN "caller_raised" ELSE "raised"
  /\ UNCHANGED <<cfgVars, dirExists, handle, files, flushed, ci, ret, alarm, loopVars,
                 timeout_log, histVars>>

\* SIGALRM is delivered while __exit__ runs close(), before, between or after
\* the ten closes: TimeOutError is raised outside any try block and leaves
\* main. The alarm that lands inside one of the closes is AlarmInStreamClose
AlarmInClose ==
  /\ alarm # 0
  /\ pc = "close"
  /\ alarm' = 0
  /\ exc' = "TimeOutError"
  /\ pc' = "raised"
  /\ UNCHANGED <<cfgVars, dirExists, handle, files, flushed, ci, ret, loopVars,
                 timeout_log, histVars>>

\* SIGALRM is delivered while self.f_x.close() is flushing the stream's
\* buffer: time_out_handler raises TimeOutError inside the close, the file
\* object is closed, its buffered records are dropped, the later streams are
\* not closed and TimeOutError leaves main
AlarmInStreamClose ==
  /\ alarm # 0
  /\ pc = "close"
  /\ ci < Len(StreamOrder)
  /\ handle[StreamOrder[ci + 1]] = "open"
  /\ LET s == StreamOrder[ci + 1] IN
       /\ handle' = [handle EXCEPT ![s] = "closed"]
       /\ \E k \in flushed[s]..Len(files[s]) :
            files' = [files EXCEPT ![s] = SubSeq(@, 1, k)]
  /\ alarm' = 0
  /\ exc' = "TimeOutError"
  /\ pc' = "raised"
  /\ UNCHANGED <<cfgVars, dirExists, flushed, ci, ret, loopVars, timeout_log,
                 histVars>>

\* a caller that still holds the handle after __enter__ failed calls close()
CallClose ==
  /\ pc = "raised"
  /\ exc = "OSError"
  /\ \E s \in Streams : handle[s] = "unset"
  /\ ret' = "caller"
  /\ ci' = 0
  /\ pc' = "close"
  /\ UNCHANGED <<cfgVars, dirExists, handle, files, flushed, alarm, loopVars, timeout_log,
                 exc, histVars>>

\* a caller calls close() once more on the handle that __exit__ has closed
CallCloseAgain ==
  /\ pc = "done"
  /\ ret = "exit"
  /\ ret' = "again"
  /\ ci' = 0
  /\ pc' = "close"
  /\ UNCHANGED <<cfgVars, dirExists, handle, files, flushed, alarm, loopVars, timeout_log,
                 exc, histVars>>

\* the steps of main, and of a close() once it was called
MainStep ==
  \/ Makedirs \/ MakedirsFail \/ OpenStream \/ OpenStreamFail
  \/ NextRegion \/ EndOfRegions \/ Arm \/ ArmOverflow
  \/ IdentifyElement \/ IdentifyElementRaise
  \/ LoopSkip \/ LoopAssign \/ FormatName \/ LoopEnd
  \/ WriteElement \/ WriteElementRaise
  \/ IdentifyTranscript \/ IdentifyTranscriptRaise
  \/ Write2bed12 \/ Write2bed12Return \/ Write2bed12Raise
  \/ Disarm \/ AlarmInTry \/ AlarmInWrite \/ AlarmInDebug
  \/ TimeOutExcept \/ TimeOutExceptRaise
  \/ CloseStream \/ CloseStreamFail \/ CloseReturn \/ CloseUnset
  \/ AlarmInClose \/ AlarmInStreamClose

\* main, and possibly a caller that calls close() after __enter__ failed
Next == MainStep \/ CallClose

Spec == Init /\ [][Next]_vars

\* main runs to an end: a step of main that is enabled is eventually taken
\* (nothing obliges a caller to call close())
FairSpec == Spec /\ WF_vars(MainStep)

\* main followed by a second, explicit close() on its handle
CloseAgainSpec == Init /\ [][Next \/ CallCloseAgain]_vars

\* main returned; it is run once more with the same arguments and inputs
\* into the same output directory (a new process: everything but the files
\* starts afresh, cluster_indx = 0 included)
Rerun ==
  /\ pc = "done"
  /\ ret = "exit"
  /\ run = 1
  /\ run' = 2
  /\ prev' = files
  /\ pc' = "enter"
  /\ handle' = [s \in Streams |-> "unset"]
  /\ ci' = 0
  /\ cur' = 0
  /\ alarm' = 0
  /\ gene_cluster_list' = <<>>
  /\ pos' = 0
  /\ cluster_indx' = 0
  /\ cluster_name' = <<>>
  /\ todo' = <<>>
  /\ attempted' = <<>>
  /\ assigned' = <<>>
  /\ timedout' = <<>>
  /\ fatal' = 0
  /\ closefail' = {}
  /\ UNCHANGED <<time_out, loglevel, nRegions, log0, results, dirExists, files, flushed, ret,
                 timeout_log, exc>>

\* the steps of a run in which no alarm fires and nothing raises
CleanStep ==
  \/ Makedirs \/ OpenStream
  \/ NextRegion \/ EndOfRegions \/ Arm
  \/ IdentifyElementFirst \/ IdentifyElementAgain
  \/ LoopSkip \/ LoopAssign \/ FormatName \/ LoopEnd
  \/ WriteElement \/ IdentifyTranscript
  \/ Write2bed12 \/ Write2bed12Return
  \/ Disarm \/ CloseStream \/ CloseReturn

\* two consecutive runs without timeout or error
RerunSpec == Init /\ [][CleanStep \/ Rerun]_vars

(* ======================================================================= *)
(* Properties                                                               *)
(* ======================================================================= *)
\* the records in the streams this run has opened
AllRecords ==
  UNION { {files[s][i] : i \in 1..Len(files[s])} :
          s \in {x \in Streams : handle[x] # "unset"} }

\* the cluster names carried by those records
WrittenIds == {r.name : r \in AllRecords}

\* the regions whose try block ended in TimeOutError
TimedOutRegions == {timedout[i] : i \in 1..Len(timedout)}

\* the ids handed out so far
AssignedSet == {assigned[k] : k \in 1..Len(assigned)}

\* __enter__ returned: all ten attributes of the handle exist
Entered == \A s \in Streams : handle[s] # "unset"

AllClosed == \A s \in Streams : handle[s] = "closed"

\* the sequence 1, 2, ..., n
UpTo(n) == [i \in 1..n |-> i]

\* C1: all-or-nothing per region: no record of a cluster of a region that
\* timed out is present in any of the ten streams.
C1_AllOrNothing ==
  \A r \in AllRecords : r.owner[1] \notin TimedOutRegions

\* C2: the cluster names in the written records are exactly c_1..c_n for some
\* n: no gap below a written name, and no name shared by two clusters.
C2_NoGapNoRepeat ==
  /\ \E n \in 0..cluster_indx : WrittenIds = {ClusterName(k) : k \in 1..n}
  /\ \A r1, r2 \in AllRecords : r1.name = r2.name => r1.owner = r2.owner

\* C3: once the handle was entered, main never terminates (returning or
\* raising) with a stream that is not closed.
C3_ClosedOnEveryExit ==
  (pc \in {"done", "raised"} /\ Entered) => AllClosed

\* C5: after a non-timeout error in region k no further region is attempted
\* and no further id is assigned (control is only ever in close() or past
\* main), and when the error has left main the streams are all closed and the
\* run has an error outcome.
C5_FatalNotSwallowed ==
  fatal # 0 =>
    /\ pc \in {"close", "raised"}
    /\ cur = fatal
    /\ Len(attempted) = fatal
    /\ pc = "raised" => (AllClosed /\ exc # "None")

\* C10: after opening a stream failed (the directory exists, an open raised),
\* close() on the handle returns without
\* raising and leaves no stream open.
C10_CloseSafeAfterFailedOpen ==
  (ret = "caller" /\ pc # "close" /\ dirExists) =>
    (pc = "caller_done" /\ \A s \in Streams : handle[s] # "open")

\* C9: in every state of any run the lines appended to the timeout log (after
\* what it held when main started) are one per region that timed out, in the order of the timeouts,
\* each with the deadline and the region's (chrom, start, end); while the
\* handler has not yet written, the line of the region being handled is the
\* only one missing.
C9_OneLogLinePerTimeout ==
  LET n == IF pc = "except" THEN Len(timedout) - 1 ELSE Len(timedout) IN
    timeout_log =
      log0 \o [i \in 1..n |-> LogLine(time_out[1], Region(timedout[i]))]

\* C4: a timeout is recovered locally.  The regions attempted are always
\* 1, 2, ..., in the iterator's order and once each; a run that returns has
\* attempted all of them; the handler of region i is followed by the try
\* block of region i+1 unless the handler itself raises a non-timeout error;
\* and once the loop starts, every region is eventually attempted unless a
\* non-timeout error ends the run.
C4_TimeoutRecovered ==
  /\ [](attempted = UpTo(Len(attempted)) /\ Len(attempted) = cur)
  /\ [](pc = "done" => attempted = UpTo(nRegions))
  /\ \A i \in 1..MaxRegions :
       (pc = "except" /\ cur = i /\ i < nRegions)
         ~> ((pc = "try" /\ cur = i + 1) \/ fatal # 0)
  /\ \A i \in 1..MaxRegions :
       (pc = "iter" /\ i <= nRegions) ~> (Len(attempted) >= i \/ fatal # 0)

\* C4 witness: region 1 timed out, region 2 was attempted, the run returned
C4_Witness ==
  /\ pc = "done"
  /\ nRegions >= 2
  /\ 1 \in TimedOutRegions
  /\ Len(attempted) = nRegions

\* C6: no alarm is pending at a region boundary (before the next region is
\* fetched and before it is armed), and a pending alarm is always the one
\* armed in the region being processed.
C6_TimerPerRegion ==
  /\ pc \in {"iter", "try"} => alarm = 0
  /\ alarm # 0 => (alarm = cur /\ time_out # None)

\* C6 witness: with a deadline, at the boundary after region 2 completed
\* normally and region 1 timed out
C6_Witness ==
  /\ pc = "iter"
  /\ cur = 2
  /\ time_out = <<1>>
  /\ timedout = <<1>>

\* C7: a cluster without elements never gets an id and no record: every
\* record belongs to a cluster that was given that name and has elements;
\* in the region being processed the clusters given an id are exactly the
\* non-empty ones iterated so far; the counter counts the ids handed out.
C7_EmptySkipped ==
  /\ \A r \in AllRecords :
       \E a \in AssignedSet :
         a.name = r.name /\ a.owner = r.owner /\ has_element(a.cluster)
  /\ pc \in {"loop", "disarm"} =>
       {a.owner[2] : a \in {x \in AssignedSet : x.owner[1] = cur}}
         = {j \in 1..pos : has_element(gene_cluster_list[j])}
  /\ cluster_indx = Len(assigned)

\* C7 witness: a region with one non-empty and one empty cluster was
\* iterated to its end and exactly one id was assigned
C7_Witness ==
  /\ pc = "disarm"
  /\ cur = 1
  /\ Len(gene_cluster_list) = 2
  /\ Cardinality({j \in 1..2 : has_element(gene_cluster_list[j])}) = 1
  /\ cluster_indx = 1
  /\ AllRecords # {}

\* C8: the k-th id assigned in a run is c_k, whatever region it falls in
\* and whatever timed out before; the name in use while a cluster is written
\* is the counter's; no name is assigned twice.
C8_GlobalMonotonicIds ==
  /\ \A k \in 1..Len(assigned) : assigned[k].name = ClusterName(k)
  /\ \A j, k \in 1..Len(assigned) :
       assigned[j].name = assigned[k].name => j = k
  /\ pc \in {"write_element", "transcript", "write_iso"} =>
       cluster_name = ClusterName(cluster_indx)

\* C8 witness: the third id is assigned in region 2 after region 1 timed out
C8_Witness ==
  /\ Len(assigned) = 3
  /\ assigned[3].owner[1] = 2
  /\ timedout = <<1>>

\* C11: close() is idempotent: a second close() on the fully opened and
\* already closed handle raises nothing, and no step of it changes the state
\* or the contents of any of the ten streams.
C11_CloseIdempotent ==
  /\ [](ret = "again" =>
          (AllClosed /\ exc = "None" /\ pc \in {"close", "caller_done"}))
  /\ [][ret = "again" => (files' = files /\ handle' = handle)]_vars

\* C11 witness: the second close() has returned on a handle with records
C11_Witness ==
  /\ ret = "again"
  /\ pc = "caller_done"
  /\ AllRecords # {}

\* C12: a resource failure aborts before any region is processed: as long
\* as not all ten streams were opened (makedirs or an open failed, or
\* __enter__ is still running) no region was fetched, identify_element was
\* not invoked, the counter is 0, no alarm is pending and the log is as it
\* was when main started.
C12_ResourceFailureAbortsEarly ==
  ~Entered =>
    /\ pc \in {"enter", "open", "raised", "close", "caller_done", "caller_raised"}
    /\ attempted = <<>>
    /\ cur = 0
    /\ cluster_indx = 0
    /\ alarm = 0
    /\ timeout_log = log0

\* C12 witness: an open failed after some streams were opened, in a run
\* that has regions to process and a deadline configured
C12_Witness ==
  /\ pc = "raised"
  /\ exc = "OSError"
  /\ handle["intron"] = "open"
  /\ handle["isoP"] = "unset"
  /\ nRegions > 0
  /\ time_out = <<1>>

\* C13: timeouts do not affect the outcome: an exception leaves main only
\* after a non-timeout error (in a region or in the handler's write of the
\* log) or a resource failure (makedirs, an open or a close failed); a
\* TimeOutError raised in a run without such an error is in its region's
\* handler; a run that returns has no exception in flight.
C13_TimeoutsKeepSuccess ==
  /\ pc = "raised" => (fatal # 0 \/ ~Entered \/ closefail # {})
  /\ (exc = "TimeOutError" /\ fatal = 0) => (pc = "except" /\ cur \in TimedOutRegions)
  /\ pc = "done" => exc = "None"

\* C13 witness: every region timed out, the last included, and main returned
C13_Witness ==
  /\ pc = "done"
  /\ nRegions = 2
  /\ timedout = <<1, 2>>

\* C14: the timer only moves Idle->Armed at the start of a region's try
\* block, Armed->Disarmed when the region's processing completes, and
\* Armed->Fired into the timeout handler of that same region; no alarm is
\* pending when the next region is fetched.
C14_TimerTransitions ==
  [][ /\ (alarm = 0 /\ alarm' # 0) => (pc = "try" /\ alarm' = cur)
      /\ (alarm # 0 /\ alarm' = 0) =>
           \/ (pc = "disarm" /\ pc' = "iter")
           \/ (pc \in TryBody /\ pc' = "except" /\ cur' = cur /\ alarm = cur)
      /\ (alarm # 0 /\ alarm' # 0) => alarm' = alarm
      /\ pc = "iter" => alarm = 0 ]_vars

\* C15: the timer is armed iff a deadline is configured: with any configured
\* int an alarm is pending when identify_element is invoked, and with no
\* deadline no alarm is ever pending and no region takes the timeout path.
C15_ArmedIffConfigured ==
  /\ pc = "identify" => (alarm # 0 <=> time_out # None)
  /\ time_out = None => (alarm = 0 /\ timedout = <<>> /\ pc # "except")

\* C19: every expiry of the alarm is delivered inside the try block of the
\* region that armed it: an alarm is pending only while control is in that
\* try block (not in the handler, not while an error propagates or the
\* streams are closed), and a TimeOutError is only ever in that region's
\* handler.
C19_AlarmOnlyInsideTry ==
  /\ alarm # 0 => (pc \in TryBody /\ alarm = cur)
  /\ exc = "TimeOutError" => (pc = "except" /\ cur \in TimedOutRegions)

\* the streams a cluster's records go to
StreamsOf(c) == c.elem \cup c.iso

\* the records of stream s, as a set
RecordsIn(s) == {files[s][i] : i \in 1..Len(files[s])}

\* the regions before the current one whose try block completed
CompletedBefore == {i \in 1..(cur - 1) : i \notin TimedOutRegions}

\* C17: no rollback across regions: whatever happens in region k (timeout,
\* fatal error) and until the end of the run, every stream exists and holds
\* every record of every cluster of every region before k that completed.
C17_NoRollback ==
  cur >= 1 =>
    /\ Entered
    /\ LET completed == CompletedBefore IN
         \A k \in 1..Len(assigned) :
           assigned[k].owner[1] \in completed =>
             \A s \in StreamsOf(assigned[k].cluster) :
               \E i \in 1..Len(files[s]) :
                 /\ files[s][i].name = assigned[k].name
                 /\ files[s][i].owner = assigned[k].owner

\* C18: the cluster name is a consistent join key: every record carries one
\* name, which is one of the names assigned; two records carry the same name
\* exactly if they belong to the same cluster, in whatever streams they are.
C18_JoinKey ==
  LET records == AllRecords
      names == {ClusterName(k) : k \in 1..cluster_indx}
  IN /\ \A r \in records : r.name \in names
     /\ \A r1, r2 \in records : (r1.name = r2.name) <=> (r1.owner = r2.owner)

\* C18 witness: one cluster has records in an element and in an isoform
\* stream, and a cluster of another region has records too
C18_Witness ==
  /\ \E r1 \in RecordsIn("intron"), r2 \in RecordsIn("isoF") : r1.owner = r2.owner
  /\ \E r1, r2 \in AllRecords : r1.owner[1] # r2.owner[1]

\* C20: output order follows input order: every step leaves the content of
\* an opened stream a prefix of its content after the step, and in every
\* stream the cluster numbers and the regions of successive records never
\* decrease.
C20_AppendInInputOrder ==
  /\ [][\A s \in Streams :
          (handle[s] # "unset" /\ files'[s] # files[s]) =>
            /\ Len(files'[s]) > Len(files[s])
            /\ SubSeq(files'[s], 1, Len(files[s])) = files[s]]_vars
  /\ [](Entered =>
          LET names == [k \in 1..cluster_indx |-> ClusterName(k)]
              \* the number n of the cluster name c_n (0 if it is no such name)
              IndexOf(name) ==
                IF \E k \in 1..cluster_indx : names[k] = name
                  THEN CHOOSE k \in 1..cluster_indx : names[k] = name
                  ELSE 0
          IN \A s \in Streams : \A i \in 1..Len(files[s]) :
               /\ IndexOf(files[s][i].name) >= 1
               /\ i > 1 =>
                    /\ IndexOf(files[s][i - 1].name) <= IndexOf(files[s][i].name)
                    /\ files[s][i - 1].owner[1] <= files[s][i].owner[1])

\* C16: re-running is idempotent: when a second run with the same inputs
\* and no timeout or error ends, each of the ten files holds exactly what it
\* held when the first run ended, whatever the directory held before the
\* first run.
C16_RerunIdempotent ==
  (run = 2 /\ pc = "done") => (AllClosed /\ files = prev)

\* C16 witness: the second run has ended and left records of two clusters
C16_Witness ==
  /\ run = 2
  /\ pc = "done"
  /\ Cardinality(WrittenIds) >= 2

====
